---- MODULE Spec2Model ----
(***************************************************************************)
(* Model of gen_opts.py: the option-field generator of spirv-cross2-rs.    *)
(* A text is a sequence of one-character strings.  One process run is the  *)
(* sequence of statements of main() followed by the interpreter's exit.    *)
(***************************************************************************)
EXTENDS Integers, Sequences, FiniteSets, TLC

VARIABLES argv, disk, pc, filename, file, line, full, matches, name, txt,
          stdout, stderr, ret, exc, status, readLog, src, layout, run, prev

vars == <<argv, disk, pc, filename, file, line, full, matches, name, txt,
          stdout, stderr, ret, exc, status, readLog, src, layout, run, prev>>

\* ---------------------------------------------------------------- bounds
MaxBody == 4
MaxLines == 3

\* ------------------------------------------------------- character data
UpperLetters == <<"A","B","C","D","E","F","G","H","I","J","K","L","M",
                  "N","O","P","Q","R","S","T","U","V","W","X","Y","Z">>
LowerLetters == <<"a","b","c","d","e","f","g","h","i","j","k","l","m",
                  "n","o","p","q","r","s","t","u","v","w","x","y","z">>
UpperSet == {UpperLetters[i] : i \in 1..26}
DigitSet == {"0","1","2","3","4","5","6","7","8","9"}
\* [0-9A-Z_]
SuffixSet == DigitSet \cup UpperSet \cup {"_"}
\* characters removed by str.strip() (the ASCII ones)
Whitespace == {" ", "\t", "\n", "\r", "\f"}

\* the literal SPVC_COMPILER_OPTION_ of the pattern
PREFIX == <<"S","P","V","C","_","C","O","M","P","I","L","E","R","_",
            "O","P","T","I","O","N","_">>

\* the three literal pieces of the f-string template
TxtHead == <<"\n"," "," "," "," ","/","/","/","\n"," "," "," "," ",
             "#","[","o","p","t","i","o","n","(">>
TxtMid == <<","," ","f","a","l","s","e",")","]","\n"," "," "," "," ",
            "p","u","b"," ">>
TxtTail == <<":"," ","b","o","o","l",",">>

MissingMsg == <<"M","i","s","s","i","n","g"," ","f","i","l","e"," ",
                "a","r","g","u","m","e","n","t",".">>

\* value of a local variable that has not been assigned yet
Unbound == <<"<unbound>">>

SetMin(S) == CHOOSE x \in S : \A y \in S : x <= y
SetMax(S) == CHOOSE x \in S : \A y \in S : x >= y

\* ---------------------------------------------------- library functions
\* lower() that folds nothing
lower_Identity(s) == s

\* str.lower()
lower(s) ==
  [i \in 1..Len(s) |->
     IF s[i] \in UpperSet
     THEN LowerLetters[CHOOSE k \in 1..26 : UpperLetters[k] = s[i]]
     ELSE s[i]]

\* str.strip()
strip(s) ==
  LET keep == {i \in 1..Len(s) : s[i] \notin Whitespace}
  IN IF keep = {} THEN <<>> ELSE SubSeq(s, SetMin(keep), SetMax(keep))

\* print(x, file=stream): the text followed by a newline
print(stream, x) == Append(stream, x \o <<"\n">>)

\* readline() that loses a last line without a line end
readline_DropUnterminated(c, p) ==
  IF p >= Len(c) THEN [line |-> <<>>, pos |-> p]
  ELSE LET nl == {i \in (p+1)..Len(c) : c[i] \in {"\n", "\r"}}
       IN IF nl = {} THEN [line |-> <<>>, pos |-> Len(c)]
          ELSE LET i == SetMin(nl)
                   e == IF c[i] = "\r" /\ i < Len(c) /\ c[i+1] = "\n"
                        THEN i + 1 ELSE i
               IN [line |-> SubSeq(c, p+1, i-1) \o <<"\n">>, pos |-> e]

\* TextIOWrapper.readline() with universal newlines: the text up to and
\* including the next line end (\n, \r or \r\n, delivered as \n), the rest of
\* the file when there is none, the empty text at end of file.
readline(c, p) ==
  IF p >= Len(c) THEN [line |-> <<>>, pos |-> p]
  ELSE LET nl == {i \in (p+1)..Len(c) : c[i] \in {"\n", "\r"}}
       IN IF nl = {} THEN [line |-> SubSeq(c, p+1, Len(c)), pos |-> Len(c)]
          ELSE LET i == SetMin(nl)
                   e == IF c[i] = "\r" /\ i < Len(c) /\ c[i+1] = "\n"
                        THEN i + 1 ELSE i
               IN [line |-> SubSeq(c, p+1, i-1) \o <<"\n">>, pos |-> e]

\* positions where `$` matches: the end of the text, and just before a
\* newline that ends the text
DollarEnds(s) ==
  {Len(s)} \cup (IF Len(s) > 0 /\ s[Len(s)] = "\n" THEN {Len(s) - 1} ELSE {})

\* the pattern with underscores admitted in the category: ([A-Z_]+_)
CategoryLens_Loose(s, e) ==
  LET P == Len(PREFIX)
  IN IF Len(s) < P \/ SubSeq(s, 1, P) # PREFIX THEN {}
     ELSE {k \in 1..(e - P) :
             /\ \A i \in (P+1)..(P+k) : s[i] \in UpperSet \cup {"_"}
             /\ P + k + 1 <= e
             /\ s[P+k+1] = "_"
             /\ P + k + 2 <= e
             /\ \A i \in (P+k+2)..e : s[i] \in SuffixSet}

\* lengths k of the letters of group 2 ([A-Z]+_) for which the whole pattern
\* ^(SPVC_COMPILER_OPTION_)([A-Z]+_)([0-9A-Z_]+)$ matches s[1..e]
CategoryLens(s, e) ==
  LET P == Len(PREFIX)
  IN IF Len(s) < P \/ SubSeq(s, 1, P) # PREFIX THEN {}
     ELSE {k \in 1..(e - P) :
             /\ \A i \in (P+1)..(P+k) : s[i] \in UpperSet
             /\ P + k + 1 <= e
             /\ s[P+k+1] = "_"
             /\ P + k + 2 <= e
             /\ \A i \in (P+k+2)..e : s[i] \in SuffixSet}

\* re.split(pattern, s): [s] when nothing matches, otherwise the text before
\* the match, the three groups and the text after the match.  [A-Z]+ is
\* greedy, so the engine settles on the longest admissible letter run.
re_split(s) ==
  LET P == Len(PREFIX)
      ends == {e \in DollarEnds(s) : CategoryLens(s, e) # {}}
  IN IF ends = {} THEN <<s>>
     ELSE LET e == SetMax(ends)
              k == SetMax(CategoryLens(s, e))
          IN << <<>>, SubSeq(s, 1, P), SubSeq(s, P+1, P+k+1),
                SubSeq(s, P+k+2, e), SubSeq(s, e+1, Len(s)) >>

\* the f-string of lines 16-19
Template(f, n) == TxtHead \o f \o TxtMid \o n \o TxtTail

\* ------------------------------------------------------------ the inputs
\* An input line is recorded by its parts: surrounding whitespace, the
\* prefix (present or not) and the text that follows it.
Raw(t) == t.lead \o t.pre \o t.body \o t.trail

BodyAlphabet == {"A", "a", "1", "_"}
Bodies == UNION {[1..k -> BodyAlphabet] : k \in 0..MaxBody}
Pads == { <<<<>>, <<>>>>, <<<<" ">>, <<>>>>, <<<<"\t">>, <<" ", "\t">>>> }

Token(ld, pr, bd, tr) == [lead |-> ld, pre |-> pr, body |-> bd, trail |-> tr]

\* every line of a one-line file
OneLineTokens ==
  {Token(pad[1], pr, bd, pad[2]) : pad \in Pads, pr \in {PREFIX, <<>>}, bd \in Bodies}

\* the lines of the longer files: three options, a blank line, a bad category
FileTokens ==
  { Token(<<>>, PREFIX, <<"A","_","A">>, <<>>),
    Token(<<" ">>, PREFIX, <<"A","A","_","1","_">>, <<"\t">>),
    Token(<<>>, PREFIX, <<"A","_","_","A","1">>, <<>>),
    Token(<<>>, <<>>, <<>>, <<>>),
    Token(<<>>, PREFIX, <<"a","_","A">>, <<>>) }

Layouts == [eol : {<<"\n">>, <<"\r", "\n">>}, final : BOOLEAN]

\* a file is a sequence of lines, each but possibly the last one terminated
ValidFile(s, lay) ==
  IF Len(s) = 0 THEN lay = [eol |-> <<"\n">>, final |-> TRUE]
  ELSE lay.final \/ Raw(s[Len(s)]) # <<>>

RECURSIVE Content(_, _)
Content(s, lay) ==
  IF Len(s) = 0 THEN <<>>
  ELSE Raw(Head(s)) \o (IF Len(s) > 1 \/ lay.final THEN lay.eol ELSE <<>>)
       \o Content(Tail(s), lay)

Sources ==
  {<<>>} \cup {<<t>> : t \in OneLineTokens}
         \cup UNION {[1..n -> FileTokens] : n \in 2..MaxLines}

ProgName == "gen_opts.py"
Path == "opts.txt"
NoDisk == [p \in {} |-> <<>>]
DiskWith(c) == [p \in {Path} |-> c]
NoFile == [state |-> "none", pos |-> 0]
NoPrev == [src |-> <<>>, out |-> <<>>, i |-> 0, j |-> 0]

Swap(s, i, j) ==
  [k \in 1..Len(s) |-> IF k = i THEN s[j] ELSE IF k = j THEN s[i] ELSE s[k]]

\* the state of a process at its start
Fresh ==
  /\ pc = "argv"
  /\ filename = Unbound /\ file = NoFile
  /\ line = Unbound /\ full = Unbound /\ matches = <<>>
  /\ name = Unbound /\ txt = Unbound
  /\ stdout = <<>> /\ stderr = <<>>
  /\ ret = "-" /\ exc = "none" /\ status = -1
  /\ readLog = <<>>

Init ==
  /\ Fresh
  /\ run = 1 /\ prev = NoPrev
  /\ \/ /\ argv = <<ProgName>>
        /\ src = <<Token(<<>>, PREFIX, <<"A","_","A">>, <<>>)>>
        /\ layout = [eol |-> <<"\n">>, final |-> TRUE]
        /\ disk = DiskWith(Content(src, layout))
     \/ /\ argv = <<ProgName, Path>>
        /\ src = <<>>
        /\ layout = [eol |-> <<"\n">>, final |-> TRUE]
        /\ disk = NoDisk
     \/ /\ argv = <<ProgName, Path>>
        /\ src \in Sources
        /\ layout \in Layouts
        /\ ValidFile(src, layout)
        /\ disk = DiskWith(Content(src, layout))

\* ------------------------------------------------------------ the steps
\* line 6: filename = sys.argv[1]   (argv[2] here: sequences start at 1)
GetFilename ==
  /\ pc = "argv"
  /\ Len(argv) >= 2
  /\ filename' = argv[2]
  /\ pc' = "open"
  /\ UNCHANGED <<argv, disk, file, line, full, matches, name, txt, stdout,
                 stderr, ret, exc, status, readLog, src, layout, run, prev>>

\* the diagnostic printed without file=sys.stderr
MissingArgument_Stdout ==
  /\ pc = "argv"
  /\ Len(argv) < 2
  /\ stdout' = print(stdout, MissingMsg)
  /\ ret' = "1"
  /\ pc' = "returned"
  /\ UNCHANGED <<argv, disk, filename, file, line, full, matches, name, txt,
                 stderr, exc, status, readLog, src, layout, run, prev>>

\* lines 7-9: the IndexError of line 6 is caught; diagnostic and return 1
MissingArgument ==
  /\ pc = "argv"
  /\ Len(argv) < 2
  /\ stderr' = print(stderr, MissingMsg)
  /\ ret' = "1"
  /\ pc' = "returned"
  /\ UNCHANGED <<argv, disk, filename, file, line, full, matches, name, txt,
                 stdout, exc, status, readLog, src, layout, run, prev>>

\* line 11: with open(filename) as file
OpenFile ==
  /\ pc = "open"
  /\ IF filename \in DOMAIN disk
     THEN /\ file' = [state |-> "open", pos |-> 0]
          /\ pc' = "readline"
          /\ exc' = exc
     ELSE /\ exc' = "FileNotFoundError"
          /\ pc' = "raised"
          /\ file' = file
  /\ UNCHANGED <<argv, disk, filename, line, full, matches, name, txt, stdout,
                 stderr, ret, status, readLog, src, layout, run, prev>>

\* line 12: while line := file.readline()
ReadLine ==
  /\ pc = "readline"
  /\ LET r == readline(disk[filename], file.pos)
     IN /\ line' = r.line
        /\ file' = [file EXCEPT !.pos = r.pos]
        /\ readLog' = IF r.line = <<>> THEN readLog ELSE Append(readLog, r.line)
        /\ pc' = IF r.line = <<>> THEN "with_exit" ELSE "strip"
  /\ UNCHANGED <<argv, disk, filename, full, matches, name, txt, stdout,
                 stderr, ret, exc, status, src, layout, run, prev>>

\* line 13: full = line.strip()
Strip ==
  /\ pc = "strip"
  /\ full' = strip(line)
  /\ pc' = "split"
  /\ UNCHANGED <<argv, disk, filename, file, line, matches, name, txt, stdout,
                 stderr, ret, exc, status, readLog, src, layout, run, prev>>

\* line 14: matches = re.split(pattern, full)
Split ==
  /\ pc = "split"
  /\ matches' = re_split(full)
  /\ pc' = "lower"
  /\ UNCHANGED <<argv, disk, filename, file, line, full, name, txt, stdout,
                 stderr, ret, exc, status, readLog, src, layout, run, prev>>

\* a line without the groups is skipped instead of raising
LowerName_Skip ==
  /\ pc = "lower"
  /\ IF Len(matches) >= 4
     THEN /\ name' = lower(matches[4])
          /\ pc' = "format"
     ELSE /\ pc' = "readline"
          /\ name' = name
  /\ UNCHANGED <<argv, disk, filename, file, line, full, matches, txt, stdout,
                 stderr, ret, exc, status, readLog, src, layout, run, prev>>

\* the field name is computed for the first line only and then kept
LowerName_Cached ==
  /\ pc = "lower"
  /\ IF Len(matches) >= 4
     THEN /\ name' = IF name = Unbound THEN lower(matches[4]) ELSE name
          /\ pc' = "format"
          /\ exc' = exc
     ELSE /\ exc' = "IndexError"
          /\ pc' = "with_exit"
          /\ name' = name
  /\ UNCHANGED <<argv, disk, filename, file, line, full, matches, txt, stdout,
                 stderr, ret, status, readLog, src, layout, run, prev>>

\* line 15: name = matches[3].lower()   (matches[4] here); a list without
\* that element raises IndexError, which nothing in main() catches
LowerName ==
  /\ pc = "lower"
  /\ IF Len(matches) >= 4
     THEN /\ name' = lower(matches[4])
          /\ pc' = "format"
          /\ exc' = exc
     ELSE /\ exc' = "IndexError"
          /\ pc' = "with_exit"
          /\ name' = name
  /\ UNCHANGED <<argv, disk, filename, file, line, full, matches, txt, stdout,
                 stderr, ret, status, readLog, src, layout, run, prev>>

\* lines 16-19: txt = f"""..."""
FormatTxt ==
  /\ pc = "format"
  /\ txt' = Template(full, name)
  /\ pc' = "print"
  /\ UNCHANGED <<argv, disk, filename, file, line, full, matches, name, stdout,
                 stderr, ret, exc, status, readLog, src, layout, run, prev>>

\* a block that was printed before is not printed again
PrintTxt_Dedup ==
  /\ pc = "print"
  /\ stdout' = IF \E k \in 1..Len(stdout) : stdout[k] = txt \o <<"\n">>
               THEN stdout ELSE print(stdout, txt)
  /\ pc' = "readline"
  /\ UNCHANGED <<argv, disk, filename, file, line, full, matches, name, txt,
                 stderr, ret, exc, status, readLog, src, layout, run, prev>>

\* line 21: print(txt)
PrintTxt ==
  /\ pc = "print"
  /\ stdout' = print(stdout, txt)
  /\ pc' = "readline"
  /\ UNCHANGED <<argv, disk, filename, file, line, full, matches, name, txt,
                 stderr, ret, exc, status, readLog, src, layout, run, prev>>

\* the file is closed at the end of the loop only, not when an exception
\* passes through
WithExit_Leak ==
  /\ pc = "with_exit"
  /\ IF exc = "none"
     THEN /\ file' = [file EXCEPT !.state = "closed"]
          /\ ret' = "None" /\ pc' = "returned"
     ELSE /\ file' = file
          /\ ret' = ret /\ pc' = "raised"
  /\ UNCHANGED <<argv, disk, filename, line, full, matches, name, txt, stdout,
                 stderr, exc, status, readLog, src, layout, run, prev>>

\* line 11, leaving the with block: the context manager closes the file,
\* both when the loop has ended (main then returns None) and when an
\* exception passes through
WithExit ==
  /\ pc = "with_exit"
  /\ file' = [file EXCEPT !.state = "closed"]
  /\ IF exc = "none"
     THEN ret' = "None" /\ pc' = "returned"
     ELSE ret' = ret /\ pc' = "raised"
  /\ UNCHANGED <<argv, disk, filename, line, full, matches, name, txt, stdout,
                 stderr, exc, status, readLog, src, layout, run, prev>>

\* the traceback the interpreter writes for an uncaught exception
Traceback(e) == <<"Traceback", e>>

\* lines 24-25: main() is called as a statement, its value is dropped, and
\* the interpreter exits with 0; an uncaught exception makes it write the
\* traceback to the error stream and exit with 1
ExitProcess ==
  /\ pc \in {"returned", "raised"}
  /\ IF pc = "returned"
     THEN status' = 0 /\ stderr' = stderr
     ELSE status' = 1 /\ stderr' = Append(stderr, Traceback(exc))
  /\ pc' = "exited"
  /\ UNCHANGED <<argv, disk, filename, file, line, full, matches, name, txt,
                 stdout, ret, exc, readLog, src, layout, run, prev>>

\* after a run that succeeded the program is run a second time, on the same
\* file with two of its lines exchanged; the first run's input and output
\* are kept for comparison
Reinvoke ==
  /\ pc = "exited"
  /\ run = 1
  /\ status = 0
  /\ Len(argv) >= 2 /\ Path \in DOMAIN disk
  /\ \E i, j \in 1..Len(src) :
       /\ i < j
       /\ ValidFile(Swap(src, i, j), layout)
       /\ prev' = [src |-> src, out |-> stdout, i |-> i, j |-> j]
       /\ src' = Swap(src, i, j)
       /\ disk' = DiskWith(Content(Swap(src, i, j), layout))
  /\ run' = 2
  /\ pc' = "argv"
  /\ filename' = Unbound /\ file' = NoFile
  /\ line' = Unbound /\ full' = Unbound /\ matches' = <<>>
  /\ name' = Unbound /\ txt' = Unbound
  /\ stdout' = <<>> /\ stderr' = <<>>
  /\ ret' = "-" /\ exc' = "none" /\ status' = -1
  /\ readLog' = <<>>
  /\ UNCHANGED <<argv, layout>>

Next ==
  \/ GetFilename
  \/ MissingArgument
  \/ OpenFile
  \/ ReadLine
  \/ Strip
  \/ Split
  \/ LowerName
  \/ FormatTxt
  \/ PrintTxt
  \/ WithExit
  \/ ExitProcess
  \/ Reinvoke

Spec == Init /\ [][Next]_vars

FairSpec == Spec /\ WF_vars(Next)

TypeOK ==
  /\ pc \in {"argv", "open", "readline", "strip", "split", "lower", "format",
             "print", "with_exit", "returned", "raised", "exited"}
  /\ file.state \in {"none", "open", "closed"}
  /\ status \in {-1, 0, 1}
  /\ run \in {1, 2}

\* ----------------------------------------------- vocabulary of the claims
HasArg == Len(argv) >= 2
\* a run that was given the path of an existing file
FileRun == HasArg /\ Path \in DOMAIN disk

\* the ways of reading a line as PREFIX category _ suffix, category being
\* one or more upper-case letters and suffix one or more of [0-9A-Z_]
Decompositions(t) ==
  IF t.pre # PREFIX THEN {}
  ELSE LET b == t.body
       IN {<<SubSeq(b, 1, k), SubSeq(b, k + 2, Len(b))>> :
             k \in {h \in 1..(Len(b) - 2) :
                      /\ b[h+1] = "_"
                      /\ \A i \in 1..h : b[i] \in {"A"}
                      /\ \A i \in (h+2)..Len(b) : b[i] \in {"A", "1", "_"}}}

WellFormed(t) == Decompositions(t) # {}
AllWellFormed(s) == \A k \in 1..Len(s) : WellFormed(s[k])

\* ASCII case fold of the characters the input lines are made of
Fold(s) == [i \in 1..Len(s) |-> IF s[i] = "A" THEN "a" ELSE s[i]]

\* the block expected for a well-formed line
ExpBlock(t) ==
  LET d == CHOOSE d \in Decompositions(t) : TRUE
  IN TxtHead \o (t.pre \o t.body) \o TxtMid \o Fold(d[2]) \o TxtTail \o <<"\n">>

\* the line being processed or last processed, and whether the loop body
\* has finished with it
Current == Len(readLog)
BodyDone == pc \in {"readline", "with_exit", "returned", "raised", "exited"}

\* C1: every line that matches the pattern yields one block of the template
\* with the stripped line as the option name and the lower-cased suffix as
\* the field name.
C1_OptionBlock ==
  FileRun =>
    /\ Len(stdout) <= Len(readLog)
    /\ \A k \in 1..Len(src) :
         (/\ k <= Current
          /\ k < Current \/ BodyDone
          /\ \A m \in 1..k : WellFormed(src[m]))
         => /\ Len(stdout) >= k
            /\ stdout[k] = ExpBlock(src[k])

C1_Witness ==
  /\ FileRun /\ pc = "exited" /\ Len(src) = 1 /\ WellFormed(src[1])
  /\ src[1].lead # <<>> /\ src[1].trail # <<>>
  /\ src[1].body = <<"A", "_", "_", "1">>
  /\ stdout = <<ExpBlock(src[1])>>

\* C2: a file of N well-formed lines yields exactly N blocks, the k-th block
\* being the block of the k-th line.
C2_OrderPreserved ==
  (pc = "exited" /\ FileRun /\ AllWellFormed(src)) =>
     stdout = [k \in 1..Len(src) |-> ExpBlock(src[k])]

C2_Witness ==
  /\ pc = "exited" /\ FileRun /\ AllWellFormed(src)
  /\ Len(src) = 3 /\ src[1] = src[3] /\ src[1] # src[2]
  /\ Len(stdout) = 3 /\ stdout[1] = stdout[3] /\ stdout[1] # stdout[2]

\* C3 (as claimed): without a path argument the process exits with a
\* non-zero status.
C3_NonZeroStatus ==
  (pc = "exited" /\ ~HasArg) => status # 0

\* C4: without a path argument exactly the diagnostic is written to the
\* error stream, nothing to standard output, and no file is opened or read.
C4_MissingArgument ==
  ~HasArg =>
    /\ stdout = <<>>
    /\ file.state = "none"
    /\ readLog = <<>>
    /\ stderr = IF pc = "argv" THEN <<>> ELSE <<MissingMsg \o <<"\n">>>>

C4_Witness ==
  /\ ~HasArg /\ pc = "exited"
  /\ stderr = <<MissingMsg \o <<"\n">>>> /\ stdout = <<>>
  /\ Path \in DOMAIN disk

\* index of the first line that does not match the pattern (0: none)
FirstBad(s) ==
  LET bad == {k \in 1..Len(s) : ~WellFormed(s[k])}
  IN IF bad = {} THEN 0 ELSE SetMin(bad)

\* C5: the first malformed line aborts the run: no block for it, nothing
\* read or emitted after it, the blocks of the lines before it emitted in
\* order.
C5_AbortOnMalformed ==
  (FileRun /\ FirstBad(src) # 0) =>
    LET m == FirstBad(src)
    IN /\ Len(readLog) <= m
       /\ Len(stdout) < m
       /\ pc = "exited" =>
            /\ exc = "IndexError"
            /\ Len(readLog) = m
            /\ stdout = [k \in 1..(m - 1) |-> ExpBlock(src[k])]

C5_Witness ==
  /\ FileRun /\ pc = "exited" /\ exc = "IndexError"
  /\ Len(src) = 3 /\ FirstBad(src) = 2 /\ Raw(src[2]) = <<>>
  /\ WellFormed(src[3])
  /\ Len(stdout) = 1 /\ Len(readLog) = 2

\* the lines readline delivers for the file
ExpLines(s, lay) ==
  [k \in 1..Len(s) |->
     Raw(s[k]) \o (IF k < Len(s) \/ lay.final THEN <<"\n">> ELSE <<>>)]

C6_Finished ==
  /\ pc = "exited" /\ status = 0 /\ exc = "none"
  /\ readLog = ExpLines(src, layout)
  /\ Len(stdout) = Len(src)

\* C6: a run on a file whose lines are all well-formed (the empty file
\* included) ends normally with status 0, having read each line once, the
\* unterminated last line too, and having emitted one block per line.
C6_Terminates ==
  (pc = "argv" /\ FileRun /\ AllWellFormed(src)) ~> C6_Finished

C6_Witness ==
  /\ C6_Finished /\ FileRun /\ AllWellFormed(src)
  /\ Len(src) >= 2 /\ ~layout.final

C6_EmptyFile ==
  C6_Finished /\ FileRun /\ src = <<>> /\ stdout = <<>>

\* C7 (as claimed): the error stream is written only when the argument is
\* missing, standard output holds one block per matched line, and no file
\* is written.
C7_StreamsFrame ==
  /\ stderr # <<>> => ~HasArg
  /\ FileRun =>
       Len(stdout) <= Cardinality({k \in 1..Len(src) :
                                     k <= Len(readLog) /\ WellFormed(src[k])})
  /\ disk \in {NoDisk, DiskWith(Content(src, layout))}

\* C8: at no terminal state of the run is the file handle open; a handle
\* that was opened is closed, after the last line and after an abort alike.
C8_HandleClosed ==
  pc \in {"returned", "raised", "exited"} =>
    /\ file.state # "open"
    /\ readLog # <<>> => file.state = "closed"

C8_Witness ==
  /\ pc = "raised" /\ exc = "IndexError"
  /\ file.state = "closed" /\ readLog # <<>>

\* C9: exchanging two lines of a file of well-formed lines exchanges the two
\* corresponding blocks of the output and changes nothing else.
C9_SwapLines ==
  (run = 2 /\ pc = "exited" /\ AllWellFormed(src)) =>
     /\ Len(stdout) = Len(prev.out)
     /\ stdout = Swap(prev.out, prev.i, prev.j)

C9_Witness ==
  /\ run = 2 /\ pc = "exited" /\ AllWellFormed(src)
  /\ Len(src) = 3 /\ Cardinality({src[1], src[2], src[3]}) = 3
  /\ stdout # prev.out
  /\ \E k \in 1..3 : k \notin {prev.i, prev.j} /\ stdout[k] = prev.out[k]

\* position of the first underscore of a text (0: none)
FirstUnderscore(b) ==
  LET us == {i \in 1..Len(b) : b[i] = "_"}
  IN IF us = {} THEN 0 ELSE SetMin(us)

\* C10: a matching line has one decomposition only, the category being the
\* letters up to the first underscore after the prefix and the field name
\* the lower-cased rest; an empty or non-letter category, or an empty rest,
\* makes the line malformed.
C10_UniqueDecomposition ==
  (FileRun /\ Current \in 1..Len(src) /\ pc \in {"lower", "format"}) =>
    LET b == src[Current].body
        u == FirstUnderscore(b)
    IN /\ Len(matches) >= 4 =>
            /\ Cardinality(CategoryLens(full, Len(full))) = 1
            /\ u > 1
            /\ matches[3] = SubSeq(b, 1, u)
            /\ matches[4] = SubSeq(b, u + 1, Len(b))
            /\ pc = "format" => name = Fold(SubSeq(b, u + 1, Len(b)))
       /\ (\/ u = 1
           \/ u > 1 /\ \E i \in 1..(u - 1) : b[i] \notin UpperSet
           \/ u >= 1 /\ u = Len(b))
          => Len(matches) < 4

C10_Witness ==
  /\ FileRun /\ pc = "format" /\ Current = 1
  /\ src[1].body = <<"A", "_", "_", "1">>
  /\ name = <<"_", "1">>

C10_WitnessMalformed ==
  /\ FileRun /\ pc = "lower" /\ Current = 1 /\ src[1].pre = PREFIX
  /\ src[1].body = <<"A", "1", "_", "A">>
  /\ Len(matches) < 4
====
